---- MODULE Spec2Model ----
(***************************************************************************)
(* Model of src/main.py: a Pico W bridge that decodes Ruuvi (data format   *)
(* 5) BLE advertisements in the radio callback BLEScanner.ble_irq and      *)
(* serves the latest decoded sample over HTTP from the single-threaded     *)
(* loop of start_webserver.                                                *)
(*                                                                         *)
(* Bytes are integers 0..255 and a bytes object is a sequence of them;     *)
(* Python's 0-based data[i] is data[i + 1] here.  A Python str is a        *)
(* sequence of one-character strings.  The floats of a sample are kept as  *)
(* fixed-point integers: temperature in 1/1000 degree C, humidity in       *)
(* 1/10000 percent, pressure in 1/100 hPa.                                 *)
(***************************************************************************)
EXTENDS Integers, Sequences, FiniteSets, TLC

VARIABLES
    RUUVI_MAC,       \* config.RUUVI_MAC, the configured target address (a str)
    latest_data,     \* BLEScanner.latest_data: None or a sample
    data_received,   \* BLEScanner.data_received
    irq,             \* arguments of the most recent ble_irq invocation
    printed,         \* what that invocation printed, in order
    scanning,        \* the radio is inside a gap_scan window
    pc,              \* position of start_webserver's loop
    cl,              \* state of the client socket bound to the name cl
    response,        \* the dict being built at lines 153-157
    outbox,          \* what the client of the current connection received
    blink_interval,  \* start_webserver's blink_interval, in ms
    since_blink,     \* ticks_diff(ticks_ms(), last_blink), in units of 100 ms
    led,             \* the LED pin level
    sock,            \* state of the listening socket s of start_webserver
    scans,           \* calls of start_scan since the last accept
    delivered,       \* the stored sample was sent to a client in full
    w                \* one run of the while loop of parse_ruuvi_data

vars == <<RUUVI_MAC, latest_data, data_received, irq, printed, scanning, pc,
          cl, response, outbox, blink_interval, since_blink, led, sock, scans,
          delivered, w>>

scanner_vars == <<latest_data, data_received, irq, printed>>
loop_vars == <<pc, cl, response, outbox, blink_interval, since_blink, led, scans>>

\* Python's None (a record, so that it compares with a sample).
None == [none |-> TRUE]

\* ------------------------------------------------------------------ constants

_IRQ_SCAN_RESULT == 5
_IRQ_SCAN_DONE == 6
RUUVI_DATA_FORMAT == 5
MFG_TYPE == 255
RUUVI_ID == <<153, 4>>

\* ------------------------------------------------------------------ bounds

\* Longest payload of the exhaustive part of the payload set.
MaxLen == 2
\* The loop's clock saturates here (units of 100 ms); above every interval.
MaxSince == 12

\* ------------------------------------------------------------------ Python

Min(a, b) == IF a < b THEN a ELSE b

\* s[a:b] for 0 <= a, 0 <= b: clipped to the sequence, never an error.
PySlice(s, a, b) ==
    LET hi == Min(b, Len(s))
    IN IF a >= hi THEN <<>> ELSE [k \in 1..(hi - a) |-> s[a + k]]

\* int.from_bytes(b, 'little')
from_bytes_little(b) ==
    LET RECURSIVE le(_)
        le(s) == IF s = <<>> THEN 0 ELSE s[1] + 256 * le(Tail(s))
    IN le(b)

\* int.from_bytes(b, 'big'); the empty bytes object gives 0.
from_bytes(b) ==
    LET RECURSIVE be(_)
        be(s) == IF s = <<>> THEN 0
                 ELSE 256 * be(SubSeq(s, 1, Len(s) - 1)) + s[Len(s)]
    IN be(b)

HexDigits == <<"0", "1", "2", "3", "4", "5", "6", "7",
               "8", "9", "a", "b", "c", "d", "e", "f">>

\* '%02x' % i
Hex02(i) == <<HexDigits[(i \div 16) + 1], HexDigits[(i % 16) + 1]>>

\* ':'.join(parts)
RECURSIVE Join(_)
Join(parts) ==
    IF parts = <<>> THEN <<>>
    ELSE IF Len(parts) = 1 THEN parts[1]
    ELSE parts[1] \o <<":">> \o Join(Tail(parts))

LowerChar(c) ==
    CASE c = "A" -> "a" [] c = "B" -> "b" [] c = "C" -> "c"
      [] c = "D" -> "d" [] c = "E" -> "e" [] c = "F" -> "f"
      [] OTHER -> c

\* A comparison that keeps the letter case.
NoLower(s) == s

\* str.lower()
Lower(s) == [k \in 1..Len(s) |-> LowerChar(s[k])]

UpperChar(c) ==
    CASE c = "a" -> "A" [] c = "b" -> "B" [] c = "c" -> "C"
      [] c = "d" -> "D" [] c = "e" -> "E" [] c = "f" -> "F"
      [] OTHER -> c

\* ------------------------------------------------------------------ decoder

\* Lines 63-66: the scaled value is compared with 32767, not the raw one.
Temperature(raw) ==
    LET temp == raw * 5
    IN IF temp > 32767 * 1000 THEN temp - 65536 * 1000 ELSE temp

\* Lines 63-74: the sample built from a manufacturer value of format 5.
Format5(mfg_data) ==
    [temperature |-> Temperature(from_bytes(PySlice(mfg_data, 3, 5))),
     humidity    |-> from_bytes(PySlice(mfg_data, 5, 7)) * 25,
     pressure    |-> from_bytes(PySlice(mfg_data, 7, 9)) + 50000]

\* Line 58, comparing the first byte of the vendor ID only.
IsRuuviFirstByte(mfg_data) == PySlice(mfg_data, 0, 1) = <<RUUVI_ID[1]>>

\* Line 58
IsRuuvi(mfg_data) == PySlice(mfg_data, 0, 2) = RUUVI_ID

\* The walk, giving up at a vendor structure of another format.
RECURSIVE walk_stops(_, _)
walk_stops(data, i) ==
    IF ~(i < Len(data)) THEN [kind |-> "no_ruuvi", sample |-> None]
    ELSE
        LET length == data[i + 1]
            mfg_data == PySlice(data, i + 2, i + length + 1)
        IN IF i + 1 < Len(data) /\ data[i + 2] = MFG_TYPE /\ IsRuuvi(mfg_data)
           THEN IF Len(mfg_data) <= 2
                THEN [kind |-> "raise", sample |-> None]
                ELSE IF mfg_data[3] = RUUVI_DATA_FORMAT
                     THEN [kind |-> "parsed", sample |-> Format5(mfg_data)]
                     ELSE [kind |-> "no_ruuvi", sample |-> None]
           ELSE walk_stops(data, i + length + 1)

\* Lines 51-79, the body of the try block, from offset i.  kind is "parsed"
\* (return at line 77), "no_ruuvi" (line 79) or "raise" (mfg_data[2] is an
\* IndexError when the manufacturer value has only the two vendor bytes).
RECURSIVE walk(_, _)
walk(data, i) ==
    IF ~(i < Len(data)) THEN [kind |-> "no_ruuvi", sample |-> None]
    ELSE
        LET length == data[i + 1]
            mfg_data == PySlice(data, i + 2, i + length + 1)
        IN IF i + 1 < Len(data) /\ data[i + 2] = MFG_TYPE /\ IsRuuvi(mfg_data)
           THEN IF Len(mfg_data) <= 2
                THEN [kind |-> "raise", sample |-> None]
                ELSE IF mfg_data[3] = RUUVI_DATA_FORMAT
                     THEN [kind |-> "parsed", sample |-> Format5(mfg_data)]
                     ELSE walk(data, i + length + 1)
           ELSE walk(data, i + length + 1)

\* Lines 47-81: the except clause turns every raise into a printed error.
parse_ruuvi_data(data) ==
    LET r == walk(data, 0)
    IN IF r.kind = "raise" THEN [kind |-> "error", sample |-> None] ELSE r

\* ------------------------------------------------------------------ inputs

\* An AD structure: length byte, type byte, value.
Struct(type, value) == <<Len(value) + 1, type>> \o value

\* The first nine bytes of a format-5 manufacturer value.
Mfg5(t, h, p) == RUUVI_ID \o <<RUUVI_DATA_FORMAT>> \o t \o h \o p

TempRaws == {<<1, 57>>, <<255, 156>>, <<127, 255>>, <<128, 0>>}
HumRaws == {<<23, 112>>, <<0, 1>>}
PresRaws == {<<78, 32>>, <<255, 255>>}

Fixture == Struct(MFG_TYPE, Mfg5(<<1, 57>>, <<23, 112>>, <<78, 32>>))
Negative == Struct(MFG_TYPE, Mfg5(<<255, 156>>, <<0, 1>>, <<255, 255>>))
Flags == <<2, 1, 6>>
ZeroLength == <<0>>
OtherVendor == <<3, MFG_TYPE, 76, 0>>
VendorOnly == Struct(MFG_TYPE, RUUVI_ID)
Format3 == Struct(MFG_TYPE, RUUVI_ID \o <<3>>)

Alphabet == {0, 1, 153, 255}

RECURSIVE SeqsUpTo(_, _)
SeqsUpTo(S, n) ==
    IF n = 0 THEN {<<>>}
    ELSE LET shorter == SeqsUpTo(S, n - 1)
         IN shorter \cup {Append(s, x) : s \in {t \in shorter : Len(t) = n - 1}, x \in S}

Prefixes(s) == {SubSeq(s, 1, n) : n \in 0..Len(s)}

\* Payloads of the decoder specification: every short byte sequence, every
\* complete format-5 structure over the raw values above, a structure behind
\* each kind of leading structure, every cut of a two-structure payload, a
\* structure declaring the real 27 bytes with 0..9 of them present, and
\* payloads around a structure of another format.
Payloads ==
    SeqsUpTo(Alphabet, MaxLen)
    \cup {Struct(MFG_TYPE, Mfg5(t, h, p)) : t \in TempRaws, h \in HumRaws, p \in PresRaws}
    \cup {pre \o Fixture : pre \in {Flags, ZeroLength, OtherVendor, VendorOnly, Format3}}
    \cup Prefixes(Flags \o Negative)
    \cup {<<27, MFG_TYPE>> \o s : s \in Prefixes(Mfg5(<<1, 57>>, <<23, 112>>, <<78, 32>>))}
    \cup {Format3, Format3 \o OtherVendor, Format3 \o Format3, Negative \o Format3,
          Format3 \o VendorOnly \o Fixture, Format3 \o Negative,
          Struct(MFG_TYPE, <<153, 5, 5, 1, 57, 23, 112, 78, 32>>)}

\* Payloads of the full specification: two samples that differ in every field,
\* one payload without sensor data, and one cut-off structure.
LoopPayloads == {Fixture, Negative, Flags}

TargetAddr == <<170, 187, 12, 221, 238, 255>>
OtherAddrs == {<<170, 187, 12, 221, 238, 254>>, <<10, 187, 12, 221, 238, 255>>}

\* Line 40
FormatAddr(addr) == Join([k \in 1..Len(addr) |-> Hex02(addr[k])])

\* The letter cases config.RUUVI_MAC may be written in.
MacConfigs ==
    LET lower == FormatAddr(TargetAddr)
        upper == [k \in 1..Len(lower) |-> UpperChar(lower[k])]
        mixed == [k \in 1..Len(lower) |-> IF k % 2 = 1 THEN upper[k] ELSE lower[k]]
    IN {lower, upper, mixed}

NoCall == [event |-> 0, addr |-> <<>>, adv_data |-> <<>>]

\* ------------------------------------------------------------------ BLEScanner

\* The callback setting the flag for every advertisement of the target,
\* decoded or not.
scan_result_flag_first(addr, adv_data) ==
    /\ irq' = [event |-> _IRQ_SCAN_RESULT, addr |-> addr, adv_data |-> adv_data]
    /\ IF Lower(FormatAddr(addr)) = Lower(RUUVI_MAC)
       THEN LET r == parse_ruuvi_data(adv_data)
            IN /\ printed' = <<"found", r.kind>>
               /\ data_received' = TRUE
               /\ IF r.kind = "parsed"
                  THEN /\ latest_data' = r.sample
                       /\ delivered' = FALSE
                  ELSE UNCHANGED <<latest_data, delivered>>
       ELSE /\ printed' = <<>>
            /\ UNCHANGED <<latest_data, data_received, delivered>>

\* Lines 37-45 (and 47-81 through the call at line 43), for event
\* _IRQ_SCAN_RESULT with data = (addr_type, addr, adv_type, rssi, adv_data).
scan_result(addr, adv_data) ==
    /\ irq' = [event |-> _IRQ_SCAN_RESULT, addr |-> addr, adv_data |-> adv_data]
    /\ IF Lower(FormatAddr(addr)) = Lower(RUUVI_MAC)
       THEN LET r == parse_ruuvi_data(adv_data)
            IN /\ printed' = <<"found", r.kind>>
               /\ IF r.kind = "parsed"
                  THEN /\ latest_data' = r.sample
                       /\ data_received' = TRUE
                       /\ delivered' = FALSE
                  ELSE UNCHANGED <<latest_data, data_received, delivered>>
       ELSE /\ printed' = <<>>
            /\ UNCHANGED <<latest_data, data_received, delivered>>

\* Lines 44-45, for event _IRQ_SCAN_DONE.
scan_done ==
    /\ irq' = [event |-> _IRQ_SCAN_DONE, addr |-> <<>>, adv_data |-> <<>>]
    /\ printed' = <<"scan_complete">>
    /\ UNCHANGED <<latest_data, data_received, delivered>>

Fields == <<"temperature", "humidity", "pressure">>

\* A number of a sample as a value of the response dict (None is JSON null).
Float(v) == [float |-> v]

\* The response dict before its values are evaluated.
Unset == [unset |-> TRUE]
Empty == [temperature |-> Unset, humidity |-> Unset, pressure |-> Unset]

\* The response dict whose three values were read from one sample.
Served(sample) ==
    [temperature |-> Float(sample.temperature),
     humidity |-> Float(sample.humidity),
     pressure |-> Float(sample.pressure)]

\* The walk of parse_ruuvi_data before it is called.
NoWalk == [data |-> <<>>, i |-> 0, kind |-> "idle", top |-> -1, steps |-> 0, sample |-> None]

\* ------------------------------------------------------------------ initial state

\* Lines 28-35, 121-122: the state when start_webserver enters its loop, for
\* a configured address written in the letter case mac.
InitWith(mac) ==
    /\ RUUVI_MAC = mac
    /\ latest_data = None
    /\ data_received = FALSE
    /\ irq = NoCall
    /\ printed = <<>>
    /\ scanning = FALSE
    /\ pc = "socket"
    /\ cl = "unbound"
    /\ response = Empty
    /\ outbox = None
    /\ blink_interval = 1000
    /\ since_blink = 0
    /\ led = 0
    /\ sock = "none"
    /\ scans = 0
    /\ delivered = FALSE

\* The address configured in upper case, as MAC addresses are usually written.
UpperMac == [k \in 1..Len(FormatAddr(TargetAddr)) |-> UpperChar(FormatAddr(TargetAddr)[k])]

Init == InitWith(UpperMac) /\ w = NoWalk

\* The address configured in any letter case.
InitDecode == (\E mac \in MacConfigs : InitWith(mac)) /\ w = NoWalk

\* ------------------------------------------------------------------ decoder specification

\* The callback applied to every advertisement of Payloads, from the target
\* address and from others.
DiscoverTarget ==
    /\ \E adv_data \in Payloads : scan_result(TargetAddr, adv_data)
    /\ UNCHANGED <<RUUVI_MAC, sock, w, scanning, loop_vars>>

DiscoverOther ==
    /\ \E addr \in OtherAddrs, adv_data \in LoopPayloads : scan_result(addr, adv_data)
    /\ UNCHANGED <<RUUVI_MAC, sock, w, scanning, loop_vars>>

Complete ==
    /\ scan_done
    /\ UNCHANGED <<RUUVI_MAC, sock, w, scanning, loop_vars>>

NextDecode == DiscoverTarget \/ DiscoverOther \/ Complete

SpecDecode == InitDecode /\ [][NextDecode]_vars

\* ------------------------------------------------------------------ walk specification

Max(a, b) == IF a >= b THEN a ELSE b

\* data[k] of Python for a walk that subscripts where the payload has ended:
\* the IndexError is left out and the byte read as 0.
Peek(data, k) == IF k < Len(data) THEN data[k + 1] ELSE 0

\* One iteration that reads the type byte without the test of line 54.
WalkIterationUnguarded ==
    /\ w.kind = "walking"
    /\ w.i < Len(w.data)
    /\ LET data == w.data
           i == w.i
           length == data[i + 1]
           mfg_data == PySlice(data, i + 2, i + length + 1)
           read == [w EXCEPT !.top = Max(w.top, i + 1), !.steps = @ + 1]
       IN IF Peek(data, i + 1) = MFG_TYPE /\ IsRuuvi(mfg_data)
          THEN IF Len(mfg_data) <= 2
               THEN w' = [read EXCEPT !.kind = "raise"]
               ELSE IF mfg_data[3] = RUUVI_DATA_FORMAT
                    THEN w' = [read EXCEPT !.kind = "parsed", !.sample = Format5(mfg_data)]
                    ELSE w' = [read EXCEPT !.i = i + length + 1]
          ELSE w' = [read EXCEPT !.i = i + length + 1]
    /\ UNCHANGED <<RUUVI_MAC, sock, scanning, scans, delivered, scanner_vars, pc, cl, response,
                   outbox, blink_interval, since_blink, led>>

\* Lines 52-78: one iteration of the while loop.  top is the highest index
\* at which data itself was subscripted so far (data[i], and data[i + 1]
\* under the test of line 54); slices subscript nothing.
WalkIteration ==
    /\ w.kind = "walking"
    /\ w.i < Len(w.data)
    /\ LET data == w.data
           i == w.i
           length == data[i + 1]
           mfg_data == PySlice(data, i + 2, i + length + 1)
           has_type == i + 1 < Len(data)
           read == [w EXCEPT !.top = Max(w.top, IF has_type THEN i + 1 ELSE i),
                             !.steps = @ + 1]
       IN IF has_type /\ data[i + 2] = MFG_TYPE /\ IsRuuvi(mfg_data)
          THEN IF Len(mfg_data) <= 2
               THEN w' = [read EXCEPT !.kind = "raise"]
               ELSE IF mfg_data[3] = RUUVI_DATA_FORMAT
                    THEN w' = [read EXCEPT !.kind = "parsed", !.sample = Format5(mfg_data)]
                    ELSE w' = [read EXCEPT !.i = i + length + 1]
          ELSE w' = [read EXCEPT !.i = i + length + 1]
    /\ UNCHANGED <<RUUVI_MAC, sock, scanning, scans, delivered, scanner_vars, pc, cl, response,
                   outbox, blink_interval, since_blink, led>>

\* Lines 52, 79: the loop condition fails and the walk ends without a sample.
WalkDone ==
    /\ w.kind = "walking"
    /\ ~(w.i < Len(w.data))
    /\ w' = [w EXCEPT !.kind = "no_ruuvi"]
    /\ UNCHANGED <<RUUVI_MAC, sock, scanning, scans, delivered, scanner_vars, pc, cl, response,
                   outbox, blink_interval, since_blink, led>>

\* Lines 50-51: parse_ruuvi_data is entered with any payload, i = 0.
InitWalk ==
    /\ InitWith(UpperMac)
    /\ \E data \in Payloads : w = [NoWalk EXCEPT !.data = data, !.kind = "walking"]

NextWalk == WalkIteration \/ WalkDone

\* The interpreter keeps executing the loop.
SpecWalk == InitWalk /\ [][NextWalk]_vars /\ WF_vars(NextWalk)

\* ------------------------------------------------------------------ start_webserver

\* Time passing while the loop blocks, on the saturating clock.
Later(t, d) == Min(t + d, MaxSince)

\* The handler without its cl.close().
handler_print_only ==
    /\ cl' = cl
    /\ pc' = "loop"

\* Lines 171-176: any exception of the iteration is printed, the socket bound
\* to cl is closed best-effort, and the loop goes on.
handler ==
    /\ cl' = IF cl = "open" THEN "closed" ELSE cl
    /\ pc' = "loop"

\* Lines 177-179: the finally clause closes the listening socket, and the
\* exception that left the try block goes on to the caller.
finally ==
    /\ sock' = "closed"
    /\ pc' = "raised"

\* Lines 112-113: the listening socket is created.
CreateSocket ==
    /\ pc = "socket"
    /\ sock' = "open"
    /\ pc' = "setsockopt"
    /\ UNCHANGED <<RUUVI_MAC, w, scans, delivered, scanner_vars, scanning, cl, response, outbox,
                   blink_interval, since_blink, led>>

\* Line 114
SetOption ==
    /\ pc = "setsockopt"
    /\ pc' = "bind"
    /\ UNCHANGED <<RUUVI_MAC, sock, w, scans, delivered, scanner_vars, scanning, cl, response, outbox,
                   blink_interval, since_blink, led>>

\* Line 114 raises an OSError; the statement stands before the try of line
\* 116, so the exception leaves start_webserver past the finally clause.
SetOptionError ==
    /\ pc = "setsockopt"
    /\ pc' = "raised"
    /\ UNCHANGED <<RUUVI_MAC, sock, w, scans, delivered, scanner_vars, scanning, cl, response, outbox,
                   blink_interval, since_blink, led>>

\* Lines 116-117
Bind ==
    /\ pc = "bind"
    /\ sock' = "bound"
    /\ pc' = "listen"
    /\ UNCHANGED <<RUUVI_MAC, w, scans, delivered, scanner_vars, scanning, cl, response, outbox,
                   blink_interval, since_blink, led>>

\* Line 117 raises an OSError (the port is in use).
BindError ==
    /\ pc = "bind"
    /\ finally
    /\ UNCHANGED <<RUUVI_MAC, w, scans, delivered, scanner_vars, scanning, cl, response, outbox,
                   blink_interval, since_blink, led>>

\* Lines 118-122: the socket listens, and the heartbeat clock starts.
Listen ==
    /\ pc = "listen"
    /\ sock' = "listening"
    /\ since_blink' = 0
    /\ blink_interval' = 1000
    /\ pc' = "loop"
    /\ UNCHANGED <<RUUVI_MAC, w, scans, delivered, scanner_vars, scanning, cl, response, outbox, led>>

\* Line 118 raises an OSError.
ListenError ==
    /\ pc = "listen"
    /\ finally
    /\ UNCHANGED <<RUUVI_MAC, w, scans, delivered, scanner_vars, scanning, cl, response, outbox,
                   blink_interval, since_blink, led>>

\* The positions of the while loop of lines 123-176.
LoopPcs ==
    {"loop", "accept", "recv", "scan", "sleep", "send", "close", "clear"}
        \cup {"if_" \o Fields[k] : k \in 1..Len(Fields)}
        \cup {"get_" \o Fields[k] : k \in 1..Len(Fields)}

\* Lines 171, 177-179: a KeyboardInterrupt is no Exception, so no handler of
\* the loop catches it; it leaves the loop through the finally clause.
Interrupt ==
    /\ pc \in LoopPcs
    /\ finally
    /\ UNCHANGED <<RUUVI_MAC, w, scans, delivered, scanner_vars, scanning, cl, response, outbox,
                   blink_interval, since_blink, led>>

\* The heartbeat comparing against the interval of the iteration before.
HeartbeatStale ==
    /\ pc = "loop"
    /\ blink_interval' = IF data_received THEN 500 ELSE 1000
    /\ IF since_blink * 100 >= blink_interval
       THEN /\ led' = 1 - led
            /\ since_blink' = 0
       ELSE UNCHANGED <<led, since_blink>>
    /\ pc' = "accept"
    /\ UNCHANGED <<RUUVI_MAC, sock, w, scans, delivered, scanner_vars, scanning, cl, response, outbox>>

\* Lines 126-137: the heartbeat at the top of an iteration.
Heartbeat ==
    /\ pc = "loop"
    /\ blink_interval' = IF data_received THEN 500 ELSE 1000
    /\ IF since_blink * 100 >= blink_interval'
       THEN /\ led' = 1 - led
            /\ since_blink' = 0
       ELSE UNCHANGED <<led, since_blink>>
    /\ pc' = "accept"
    /\ UNCHANGED <<RUUVI_MAC, sock, w, scans, delivered, scanner_vars, scanning, cl, response, outbox>>

\* The timeout branch resetting the flag as a served request does.
AcceptTimeoutClears ==
    /\ pc = "accept"
    /\ since_blink' = Later(since_blink, 1)
    /\ data_received' = FALSE
    /\ pc' = "loop"
    /\ UNCHANGED <<RUUVI_MAC, sock, w, scans, delivered, latest_data, irq, printed, scanning, cl,
                   response, outbox, blink_interval, led>>

\* Lines 139, 166-168: accept times out after 100 ms with OSError 11.
AcceptTimeout ==
    /\ pc = "accept"
    /\ since_blink' = Later(since_blink, 1)
    /\ pc' = "loop"
    /\ UNCHANGED <<RUUVI_MAC, sock, w, scans, delivered, scanner_vars, scanning, cl, response, outbox,
                   blink_interval, led>>

\* Lines 139, 166-176: accept fails with another OSError, which is re-raised
\* into the handler.
AcceptError ==
    /\ pc = "accept"
    /\ since_blink' = Later(since_blink, 1)
    /\ handler
    /\ UNCHANGED <<RUUVI_MAC, sock, w, scans, delivered, scanner_vars, scanning, response, outbox,
                   blink_interval, led>>

\* Lines 139-140: a client connects within the timeout.
Accept ==
    /\ pc = "accept"
    /\ \E d \in {0, 1} : since_blink' = Later(since_blink, d)
    /\ cl' = "open"
    /\ outbox' = None
    /\ scans' = 0
    /\ pc' = "recv"
    /\ UNCHANGED <<RUUVI_MAC, sock, w, delivered, scanner_vars, scanning, response, blink_interval, led>>

\* Lines 141-142: the request is read and decoded.  The timeout of line 137
\* is set on s only; recv on the accepted socket returns when the client has
\* sent something or closed, and not before.
Recv ==
    /\ pc = "recv"
    /\ pc' = "scan"
    /\ UNCHANGED <<RUUVI_MAC, sock, w, scans, delivered, scanner_vars, scanning, cl, response, outbox,
                   blink_interval, since_blink, led>>

\* Lines 141, 166-176: recv raises an OSError, or decode() a UnicodeError.
RecvError ==
    /\ pc = "recv"
    /\ handler
    /\ UNCHANGED <<RUUVI_MAC, sock, w, scans, delivered, scanner_vars, scanning, response, outbox,
                   blink_interval, since_blink, led>>

\* The handler going to the settle delay without calling start_scan.
StartScanSkipped ==
    /\ pc = "scan"
    /\ pc' = "sleep"
    /\ UNCHANGED <<RUUVI_MAC, sock, w, scans, delivered, scanner_vars, scanning, cl, response,
                   outbox, blink_interval, since_blink, led>>

\* Lines 144-145, 83-85: start_scan opens a scan window.
StartScan ==
    /\ pc = "scan"
    /\ scanning' = TRUE
    /\ scans' = scans + 1
    /\ pc' = "sleep"
    /\ UNCHANGED <<RUUVI_MAC, sock, w, delivered, scanner_vars, cl, response, outbox,
                   blink_interval, since_blink, led>>

\* Lines 145, 166-176: gap_scan raises an OSError.
StartScanError ==
    /\ pc = "scan"
    /\ handler
    /\ UNCHANGED <<RUUVI_MAC, sock, w, scans, delivered, scanner_vars, scanning, response, outbox,
                   blink_interval, since_blink, led>>

\* Lines 146-151: the settle delay of one second, then the print that tells
\* whether a sample is stored.
Sleep ==
    /\ pc = "sleep"
    /\ since_blink' = Later(since_blink, 10)
    /\ response' = Empty
    /\ pc' = "if_temperature"
    /\ UNCHANGED <<RUUVI_MAC, sock, w, scans, delivered, scanner_vars, scanning, cl, outbox, blink_interval, led>>

NextField(f) ==
    CASE f = "temperature" -> "if_humidity"
      [] f = "humidity" -> "if_pressure"
      [] f = "pressure" -> "send"

\* The condition, with a missing sample served as 0 instead of None.
TestFieldZero(f) ==
    /\ pc = "if_" \o f
    /\ IF latest_data # None
       THEN /\ pc' = "get_" \o f
            /\ UNCHANGED response
       ELSE /\ response' = [response EXCEPT ![f] = Float(0)]
            /\ pc' = NextField(f)
    /\ UNCHANGED <<RUUVI_MAC, sock, w, scans, delivered, scanner_vars, scanning, cl, outbox,
                   blink_interval, since_blink, led>>

\* Lines 154-156, the condition of "latest_data[f] if latest_data else None":
\* None is falsy and gives None, a sample (a dict of three keys) is truthy.
TestField(f) ==
    /\ pc = "if_" \o f
    /\ IF latest_data # None
       THEN /\ pc' = "get_" \o f
            /\ UNCHANGED response
       ELSE /\ response' = [response EXCEPT ![f] = None]
            /\ pc' = NextField(f)
    /\ UNCHANGED <<RUUVI_MAC, sock, w, scans, delivered, scanner_vars, scanning, cl, outbox,
                   blink_interval, since_blink, led>>

\* Lines 154-156, the value: latest_data is read again and subscripted.
GetField(f) ==
    /\ pc = "get_" \o f
    /\ latest_data # None
    /\ response' = [response EXCEPT ![f] = Float(latest_data[f])]
    /\ pc' = NextField(f)
    /\ UNCHANGED <<RUUVI_MAC, sock, w, scans, delivered, scanner_vars, scanning, cl, outbox,
                   blink_interval, since_blink, led>>

BuildResponse == \E k \in 1..Len(Fields) : TestField(Fields[k]) \/ GetField(Fields[k])

\* Lines 159-163: the response is serialized under the fixed status line
\* "HTTP/1.0 200 OK" and sent.
Send ==
    /\ pc = "send"
    /\ outbox' = [status |-> 200, body |-> response]
    /\ delivered' = (delivered \/ (latest_data # None /\ response = Served(latest_data)))
    /\ pc' = "close"
    /\ UNCHANGED <<RUUVI_MAC, sock, w, scans, scanner_vars, scanning, cl, response,
                   blink_interval, since_blink, led>>

\* A failed send that resets the flag on its way to the handler.
SendErrorClears ==
    /\ pc = "send"
    /\ handler
    /\ data_received' = FALSE
    /\ UNCHANGED <<RUUVI_MAC, sock, w, scans, delivered, latest_data, irq, printed, scanning,
                   response, outbox, blink_interval, since_blink, led>>

\* Lines 163, 166-176: send raises an OSError.
SendError ==
    /\ pc = "send"
    /\ handler
    /\ UNCHANGED <<RUUVI_MAC, sock, w, scans, delivered, scanner_vars, scanning, response, outbox,
                   blink_interval, since_blink, led>>

\* Line 164
Close ==
    /\ pc = "close"
    /\ cl' = "closed"
    /\ pc' = "clear"
    /\ UNCHANGED <<RUUVI_MAC, sock, w, scans, delivered, scanner_vars, scanning, response, outbox,
                   blink_interval, since_blink, led>>

\* Lines 164, 166-176: close raises an OSError.
CloseError ==
    /\ pc = "close"
    /\ handler
    /\ UNCHANGED <<RUUVI_MAC, sock, w, scans, delivered, scanner_vars, scanning, response, outbox,
                   blink_interval, since_blink, led>>

\* Line 165, resetting the sample along with its flag.
ClearEverything ==
    /\ pc = "clear"
    /\ data_received' = FALSE
    /\ latest_data' = None
    /\ pc' = "loop"
    /\ UNCHANGED <<RUUVI_MAC, sock, w, scans, delivered, irq, printed, scanning, cl, response,
                   outbox, blink_interval, since_blink, led>>

\* Line 165
ClearReceived ==
    /\ pc = "clear"
    /\ data_received' = FALSE
    /\ pc' = "loop"
    /\ UNCHANGED <<RUUVI_MAC, sock, w, scans, delivered, latest_data, irq, printed, scanning, cl, response,
                   outbox, blink_interval, since_blink, led>>

\* ------------------------------------------------------------------ the radio

\* During a scan window the radio invokes the callback for each advertisement
\* it hears, between any two steps of the loop.
Discover ==
    /\ scanning
    /\ \E adv_data \in LoopPayloads : scan_result(TargetAddr, adv_data)
    /\ UNCHANGED <<RUUVI_MAC, sock, w, scanning, loop_vars>>

DiscoverNeighbour ==
    /\ scanning
    /\ \E addr \in OtherAddrs : scan_result(addr, Fixture)
    /\ UNCHANGED <<RUUVI_MAC, sock, w, scanning, loop_vars>>

\* The scan window ends and the radio reports _IRQ_SCAN_DONE.
ScanComplete ==
    /\ scanning
    /\ scanning' = FALSE
    /\ scan_done
    /\ UNCHANGED <<RUUVI_MAC, sock, w, loop_vars>>

\* ------------------------------------------------------------------ full specification

Next ==
    \/ CreateSocket
    \/ SetOption
    \/ SetOptionError
    \/ Bind
    \/ BindError
    \/ Listen
    \/ ListenError
    \/ Interrupt
    \/ Heartbeat
    \/ AcceptTimeout
    \/ AcceptError
    \/ Accept
    \/ Recv
    \/ RecvError
    \/ StartScan
    \/ StartScanError
    \/ Sleep
    \/ BuildResponse
    \/ Send
    \/ SendError
    \/ Close
    \/ CloseError
    \/ ClearReceived
    \/ Discover
    \/ DiscoverNeighbour
    \/ ScanComplete

Spec == Init /\ [][Next]_vars

\* The steps start_webserver takes without waiting for the client: all of
\* them but the return of recv, which waits for the client, and the
\* KeyboardInterrupt, which waits for the operator.
Progress ==
    \/ CreateSocket
    \/ SetOption \/ SetOptionError
    \/ Bind \/ BindError
    \/ Listen \/ ListenError
    \/ Heartbeat
    \/ AcceptTimeout \/ AcceptError \/ Accept
    \/ StartScan \/ StartScanError
    \/ Sleep
    \/ BuildResponse
    \/ Send \/ SendError
    \/ Close \/ CloseError
    \/ ClearReceived

\* The interpreter keeps running the loop: a step that does not wait for the
\* client is eventually taken.
SpecLive == Spec /\ WF_vars(Progress)

\* ------------------------------------------------------------------ AD structures, as the claims describe them

\* The offsets at which the AD structures of a payload start.
RECURSIVE StructOffsets(_, _)
StructOffsets(data, o) ==
    IF o >= Len(data) THEN {}
    ELSE {o} \cup StructOffsets(data, o + data[o + 1] + 1)

Offsets(data) == StructOffsets(data, 0)

\* The structure at o declares more bytes than the payload holds.
Overruns(data, o) == o + data[o + 1] + 1 > Len(data)

\* The structure at o is manufacturer-specific and its value starts 0x99 0x04.
VendorAt(data, o) ==
    /\ data[o + 1] >= 3
    /\ o + 4 <= Len(data)
    /\ data[o + 2] = 255
    /\ data[o + 3] = 153
    /\ data[o + 4] = 4

\* That structure has a format byte.
HasFormatAt(data, o) == VendorAt(data, o) /\ data[o + 1] >= 4 /\ o + 5 <= Len(data)

Format5At(data, o) == HasFormatAt(data, o) /\ data[o + 5] = 5

\* A format-5 structure with bytes [3:9] of its value declared and present.
CompleteAt(data, o) ==
    /\ Format5At(data, o)
    /\ data[o + 1] >= 10
    /\ ~Overruns(data, o)

VendorOffsets(data) == {o \in Offsets(data) : VendorAt(data, o)}

\* The first vendor structure of a payload that has one.
FirstVendor(data) ==
    CHOOSE o \in VendorOffsets(data) : \A q \in VendorOffsets(data) : o <= q

\* The big-endian 16-bit value at bytes [k:k+2] of the value of the structure at o.
RawAt(data, o, k) == 256 * data[o + 3 + k] + data[o + 4 + k]

\* The most recent callback was a discovery from the target address.
FromTarget == irq.event = _IRQ_SCAN_RESULT /\ irq.addr = TargetAddr

\* ... whose first vendor structure is a complete format-5 structure.
DecodesFirst ==
    /\ FromTarget
    /\ VendorOffsets(irq.adv_data) # {}
    /\ CompleteAt(irq.adv_data, FirstVendor(irq.adv_data))

\* A step of the callback: every step of the loop moves pc, no callback does.
IrqStep == pc' = pc

\* The callback left the telemetry state as it was.
Untouched == latest_data' = latest_data /\ data_received' = data_received

\* ------------------------------------------------------------------ claims

\* C1: an advertisement from the target whose format-5 structure carries a raw
\* temperature >= 32768 stores the temperature (raw - 65536) * 0.005, a
\* negative value.
C1_TwosComplement ==
    (DecodesFirst /\ RawAt(irq.adv_data, FirstVendor(irq.adv_data), 3) >= 32768)
        => /\ latest_data # None
           /\ latest_data.temperature
                  = (RawAt(irq.adv_data, FirstVendor(irq.adv_data), 3) - 65536) * 5
           /\ latest_data.temperature < 0

\* The decoder reaches a structure whose declared length runs past the end of
\* the payload: no structure before it is a format-5 vendor structure.
ReachesOverrun(data) ==
    \E o \in Offsets(data) :
        /\ Overruns(data, o)
        /\ \A q \in Offsets(data) : q < o => ~Format5At(data, q)

\* C2: a payload with an AD structure whose declared length runs past its end
\* produces no sample and leaves latest_data and data_received as they were.
C2_TruncatedNoSample ==
    [][(IrqStep /\ FromTarget' /\ ReachesOverrun(irq'.adv_data))
           => (Untouched /\ printed'[2] # "parsed")]_vars

\* C3: a payload with no manufacturer structure starting 0x99 0x04 ends at
\* "No Ruuvi data found" without an exception, produces no sample and leaves
\* latest_data and data_received as they were.
C3_NoVendorNoSample ==
    [][(IrqStep /\ FromTarget' /\ VendorOffsets(irq'.adv_data) = {})
           => (Untouched /\ printed' = <<"found", "no_ruuvi">>)]_vars

\* C3 witness: a payload without vendor structure whose last length byte
\* exceeds the remaining bytes was parsed while a sample was stored.
C3_Witness ==
    /\ FromTarget
    /\ VendorOffsets(irq.adv_data) = {}
    /\ \E o \in Offsets(irq.adv_data) : Overruns(irq.adv_data, o)
    /\ printed = <<"found", "no_ruuvi">>
    /\ latest_data # None

\* The first vendor structure of the payload has a format byte other than 5.
UnsupportedFirst(data) ==
    /\ VendorOffsets(data) # {}
    /\ HasFormatAt(data, FirstVendor(data))
    /\ ~Format5At(data, FirstVendor(data))

\* The offset of the structure after the first vendor structure.
AfterFirst(data) == FirstVendor(data) + data[FirstVendor(data) + 1] + 1

C5_Scaling ==
    /\ DecodesFirst =>
           LET data == irq.adv_data
               o == FirstVendor(data)
           IN /\ latest_data # None
              /\ latest_data.humidity = RawAt(data, o, 5) * 25
              /\ latest_data.pressure = RawAt(data, o, 7) + 50000
              /\ RawAt(data, o, 3) <= 32767
                     => latest_data.temperature = RawAt(data, o, 3) * 5
    /\ (FromTarget /\ irq.adv_data = <<10, 255, 153, 4, 5, 1, 57, 23, 112, 78, 32>>)
           => latest_data = [temperature |-> 1565, humidity |-> 150000,
                             pressure |-> 70000]

\* C5 witness: the fixture with raw values 313, 6000, 20000 was decoded.
C5_Witness ==
    /\ DecodesFirst
    /\ RawAt(irq.adv_data, FirstVendor(irq.adv_data), 3) = 313
    /\ RawAt(irq.adv_data, FirstVendor(irq.adv_data), 5) = 6000
    /\ RawAt(irq.adv_data, FirstVendor(irq.adv_data), 7) = 20000
    /\ latest_data # None
    /\ latest_data.temperature = 1565

\* C6: a discovery from another address leaves latest_data and data_received
\* as they were and prints nothing; a discovery from the target address is
\* passed to the decoder whatever the letter case of the configured address.
C6_AddressFilter ==
    [][(IrqStep /\ irq'.event = _IRQ_SCAN_RESULT)
           => IF irq'.addr = TargetAddr
              THEN Len(printed') = 2 /\ printed'[1] = "found"
              ELSE Untouched /\ printed' = <<>>]_vars

\* C6 witness: with the target configured in another letter case than the
\* formatted address, a discovery from the target reached the decoder.
C6_Witness ==
    /\ FromTarget
    /\ RUUVI_MAC # FormatAddr(TargetAddr)
    /\ Lower(RUUVI_MAC) = FormatAddr(TargetAddr)
    /\ printed = <<"found", "parsed">>
    /\ latest_data # None

\* The response body that serves a stored value: three nulls for None, the
\* three numbers of a sample.
BodyOf(sample) ==
    IF sample = None
    THEN [temperature |-> None, humidity |-> None, pressure |-> None]
    ELSE [temperature |-> Float(sample.temperature),
          humidity |-> Float(sample.humidity),
          pressure |-> Float(sample.pressure)]

\* The samples the decoder produces from the advertisements of the loop.
DecodedSamples ==
    {parse_ruuvi_data(d).sample : d \in {e \in LoopPayloads : parse_ruuvi_data(e).kind = "parsed"}}

\* The bodies that are all null or taken from one decoded sample.
WholeBodies == {BodyOf(None)} \cup {BodyOf(x) : x \in DecodedSamples}

\* C7: the sample and its flag are read as one unit: when the handler clears
\* data_received after serving a sample, the stored sample is still the one it
\* read, so that no new sample is left with the flag of the served one.
C7_ReadAndClearAsUnit ==
    [][(pc = "clear" /\ pc' = "loop" /\ response \in WholeBodies)
           => response = BodyOf(latest_data)]_vars

\* C8: every response body is all null or taken from one and the same decoded
\* sample, whatever callbacks fire while it is built.
C8_AllOrNothing == outbox # None => outbox.body \in WholeBodies

\* C9 as stated: every client gets a 200 response; a connection that is closed
\* has received one.
C9_Always200 == cl = "closed" => (outbox # None /\ outbox.status = 200)

\* C9 amended: a response sent while no sample was ever decoded has three
\* null fields; every response sent is a 200 response whose fields are null or
\* numbers, and a connection closed at line 164 has received it; a connection
\* whose handling raises is closed by the handler without a response.
C9_NullBody ==
    /\ outbox # None =>
           /\ outbox.status = 200
           /\ \A k \in 1..Len(Fields) :
                  \/ outbox.body[Fields[k]] = None
                  \/ \E x \in DecodedSamples : outbox.body[Fields[k]] = Float(x[Fields[k]])
           /\ latest_data = None => outbox.body = BodyOf(None)
    /\ pc = "clear" => (cl = "closed" /\ outbox # None)
    /\ (cl = "closed" /\ outbox = None) => pc \in {"loop", "accept", "raised"}

\* C9 witness: a response was sent after discoveries that stored no sample.
C9_Witness ==
    /\ outbox # None
    /\ latest_data = None
    /\ irq.event = _IRQ_SCAN_RESULT
    /\ outbox.body = BodyOf(None)

\* C10: a successful decode stores the new sample and sets data_received; the
\* step that completes a served request clears data_received and leaves
\* latest_data alone, as does every step of the loop.
C10_DecodeThenServe ==
    [][/\ (IrqStep /\ FromTarget' /\ parse_ruuvi_data(irq'.adv_data).kind = "parsed")
              => /\ latest_data' = parse_ruuvi_data(irq'.adv_data).sample
                 /\ data_received'
       /\ (pc = "clear" /\ pc' = "loop")
              => /\ outbox # None /\ outbox.body = response
                 /\ ~data_received'
                 /\ latest_data' = latest_data
       /\ pc' # pc => latest_data' = latest_data]_vars

\* C10 witness: a request was served from a stored sample and completed.
C10_Witness ==
    /\ pc = "loop"
    /\ cl = "closed"
    /\ outbox # None
    /\ latest_data # None
    /\ outbox.body = BodyOf(latest_data)
    /\ ~data_received

\* C11: whenever data_received is false and a sample is stored, that very
\* sample has been delivered to a client.
C11_NotFreshWasDelivered ==
    (~data_received /\ latest_data # None) => delivered

\* C12: the step at the top of an iteration selects 500 ms when data_received
\* is true and 1000 ms otherwise, toggles the LED exactly when the time since
\* the last toggle has reached that interval, and then restarts the time from
\* now; no other step toggles the LED.
C12_Heartbeat ==
    [][/\ (pc = "loop" /\ pc' = "accept")
              => LET interval == IF data_received THEN 500 ELSE 1000
                 IN /\ blink_interval' = interval
                    /\ (led' # led) <=> (since_blink * 100 >= interval)
                    /\ (led' # led) => since_blink' = 0
                    /\ (led' = led) => since_blink' = since_blink
       /\ (led' # led) => (pc = "loop" /\ pc' = "accept")]_vars

\* C12 witness: the LED was toggled at the top of an iteration that selected
\* the 500 ms interval.
C12_Witness ==
    /\ pc = "accept"
    /\ data_received
    /\ blink_interval = 500
    /\ since_blink = 0
    /\ led = 1

\* C13: a step in which accept, recv, start_scan, send or close raises leaves
\* the loop running: it ends at the top of the loop with the listening socket
\* still listening and with no connection left open; whenever the loop polls
\* for a client, the connection of the iteration before is closed.
C13_ErrorKeepsLoop ==
    [][/\ (AcceptError \/ RecvError \/ StartScanError \/ SendError \/ CloseError)
              => /\ pc' = "loop"
                 /\ cl' # "open"
                 /\ sock = "listening" /\ sock' = "listening"
       /\ pc' \in {"loop", "accept"} => cl' # "open"]_vars

\* C13 witness: send raised after the scan was started, the connection was
\* closed without a response, and the loop polls again.
C13_Witness ==
    /\ pc = "accept"
    /\ cl = "closed"
    /\ scans = 1
    /\ response # Empty
    /\ outbox = None
    /\ sock = "listening"

\* C14: an accept that returns no connection goes back to the top of the loop
\* with no scan started, nothing sent, no connection opened, and latest_data
\* and data_received as they were.
C14_TimeoutFrame ==
    [][(pc = "accept" /\ pc' = "loop")
           => /\ scanning' = scanning /\ scans' = scans
              /\ outbox' = outbox /\ response' = response
              /\ cl' # "open"
              /\ latest_data' = latest_data
              /\ data_received' = data_received
              /\ delivered' = delivered
              /\ sock' = sock]_vars

\* C14 witness: after a served request and a toggle of the LED, two accepts
\* returned no connection while a sample stayed stored and flagged.
C14_Witness ==
    /\ pc = "loop"
    /\ outbox # None
    /\ since_blink = 2
    /\ data_received
    /\ latest_data # None

\* C15: whenever start_webserver has been left by an exception after the
\* listening socket was created, that socket has been closed.
C15_SocketReleased ==
    pc = "raised" => sock = "closed"

\* The positions of the handler after the settle delay, where latest_data is
\* read and the response is sent.
AfterDelay ==
    {"send", "close", "clear"}
        \cup {"if_" \o Fields[k] : k \in 1..Len(Fields)}
        \cup {"get_" \o Fields[k] : k \in 1..Len(Fields)}

C17_ClearedBeforeSend ==
    [][(data_received /\ ~data_received') => outbox = None]_vars

\* C17 amended: data_received is cleared only by the last step of a request,
\* after the response built from latest_data was sent and the connection
\* closed; that step always leaves the flag false, and a failing send or
\* close leaves the flag as it was.
C17_ClearedAfterClose ==
    [][/\ (data_received /\ ~data_received')
              => /\ pc = "clear" /\ pc' = "loop"
                 /\ outbox # None /\ outbox.body = response
                 /\ cl = "closed"
       /\ (pc = "clear" /\ pc' = "loop") => ~data_received'
       /\ (pc \in {"send", "close"} /\ pc' = "loop")
              => data_received' = data_received]_vars

\* C17 witness: a response read in full from the stored sample could not be
\* sent, and the flag of that sample is still set when the loop resumes.
C17_Witness ==
    /\ pc = "loop"
    /\ cl = "closed"
    /\ outbox = None
    /\ latest_data # None
    /\ response = Served(latest_data)
    /\ data_received
    /\ ~delivered

\* C18: every accepted connection is eventually closed (or the program is
\* interrupted), whatever the client does.
C18_HandlingCompletes ==
    (cl = "open") ~> (cl = "closed" \/ pc = "raised")

\* The walk has ended.
Finished == w.kind \in {"parsed", "no_ruuvi", "raise"}

\* C19 as stated: a walk that has stopped has decoded a sample or has its
\* offset at or past the payload length.
C19_StopsAtDecodeOrEnd ==
    Finished => (w.kind = "parsed" \/ w.i >= Len(w.data))

\* C19 amended: the walk ends on every payload, after at most one iteration
\* per byte; each iteration that continues moves the offset forward by
\* length + 1 >= 1; the payload is never subscripted at or past its end; the
\* walk stops at the first decode, at the end of the payload, or with the
\* caught IndexError of a vendor structure that has no format byte, and its
\* outcome is that of the decoder.
C19_WalkTerminates ==
    /\ [](/\ w.top < Len(w.data)
          /\ w.steps <= Len(w.data)
          /\ w.kind = "no_ruuvi" => w.i >= Len(w.data)
          /\ w.kind = "raise"
                 => /\ w.i + 1 < Len(w.data)
                    /\ w.data[w.i + 2] = MFG_TYPE
                    /\ PySlice(w.data, w.i + 2, w.i + w.data[w.i + 1] + 1) = RUUVI_ID
          /\ Finished => [kind |-> w.kind, sample |-> w.sample] = walk(w.data, 0))
    /\ [][/\ (w'.kind = "walking" /\ w' # w)
                 => /\ w'.i = w.i + w.data[w.i + 1] + 1
                    /\ w'.i > w.i
          /\ Finished => w' = w]_vars
    /\ <>Finished

\* C19 witness: a payload that starts with a length byte of 0 was walked past
\* that byte and decoded at the structure behind it.
C19_Witness ==
    /\ w.kind = "parsed"
    /\ w.data[1] = 0
    /\ w.steps = 2
    /\ w.sample = Format5(Mfg5(<<1, 57>>, <<23, 112>>, <<78, 32>>))

\* C20: in every reachable state data_received implies that a sample is
\* stored, and no step takes a stored sample away.
C20_FreshImpliesPresent ==
    /\ [](data_received => latest_data # None)
    /\ [][latest_data # None => latest_data' # None]_vars

\* C20 witness: a sample is stored with its flag cleared by a served request,
\* and the callback has since run for an advertisement of the target that
\* holds no sensor data.
C20_Witness ==
    /\ latest_data # None
    /\ ~data_received
    /\ delivered
    /\ irq.event = _IRQ_SCAN_RESULT
    /\ irq.addr = TargetAddr
    /\ irq.adv_data = Flags

====
